---------------------------- MODULE Spec2Model ----------------------------
(***************************************************************************)
(* A model of the open-addressed hash table of hashtable.h: the index      *)
(* array of buckets, the entries array, the table header and the           *)
(* operations HT_new_ex, HT_put, HT_get, HT_exists, HT_remove, HT_free and *)
(* _HT_expand.                                                             *)
(*                                                                         *)
(* Representation choices:                                                 *)
(*  - a byte is a number 0..255; a caller's key buffer is a sequence of   *)
(*    bytes that ends with its zero terminator; an entry's k, a buffer of  *)
(*    HT_MAX_KEY_LEN bytes, is kept as the sequence of its bytes up to the *)
(*    last non-zero one (Pack), every byte after it being zero (Byte);     *)
(*  - unsigned long is 64 bits wide; a hash code is kept as four 16-bit    *)
(*    limbs, least significant first, so that h*33+c wraps at 2^64;        *)
(*  - a value handle (void* ) is a number, NULL is 0;                      *)
(*  - a load factor (float) is kept in hundredths: 75 is 0.75;             *)
(*  - HT_MAX_CAPACITY is 1 << MaxCapShift; the source shifts by 30, the    *)
(*    model by a smaller amount so that a table of maximal capacity can    *)
(*    be built and filled.                                                 *)
(***************************************************************************)
EXTENDS Integers, Sequences, FiniteSets, TLC

(***************************************************************************)
(* Constants of hashtable.h                                                *)
(***************************************************************************)
HT_MAX_KEY_LEN == 32

HT_DEFAULT_CAPACITY == 16

MaxCapShift == 5

HT_MAX_CAPACITY == 2^MaxCapShift

HT_DEFAULT_LOAD_FACTOR == 75

HT_BUCKET_OCCUPIED == 0

HT_EMPTY_BUCKET == -1

HT_DELETED_BUCKET == -2

NULL == 0

(***************************************************************************)
(* Bounds of the exploration                                               *)
(***************************************************************************)
MaxOps == 5

(***************************************************************************)
(* Machine arithmetic                                                      *)
(***************************************************************************)
Limb == 2^16

Max(a, b) == IF a > b THEN a ELSE b

RECURSIVE BitOr(_, _)
BitOr(a, b) ==
    IF a = 0 THEN b
    ELSE IF b = 0 THEN a
    ELSE (IF a % 2 = 1 \/ b % 2 = 1 THEN 1 ELSE 0) + 2 * BitOr(a \div 2, b \div 2)

Shr(v, k) == v \div (2^k)

\* _HT_round_up without its v--
RoundUpNoDecrement(val) ==
    LET v1 == BitOr(val, Shr(val, 1))
        v2 == BitOr(v1, Shr(v1, 2))
        v3 == BitOr(v2, Shr(v2, 4))
        v4 == BitOr(v3, Shr(v3, 8))
        v5 == BitOr(v4, Shr(v4, 16))
    IN  v5 + 1

\* _HT_round_up: v--; v |= v >> 1, 2, 4, 8, 16; v++
_HT_round_up(val) ==
    LET v0 == val - 1
        v1 == BitOr(v0, Shr(v0, 1))
        v2 == BitOr(v1, Shr(v1, 2))
        v3 == BitOr(v2, Shr(v2, 4))
        v4 == BitOr(v3, Shr(v3, 8))
        v5 == BitOr(v4, Shr(v4, 16))
    IN  v5 + 1

\* (size_t)(load_factor * capacity), load_factor in hundredths
_HT_calc_expansion(lf, capacity) == (lf * capacity) \div 100

\* the unsigned long 5381
HashInit == <<5381, 0, 0, 0>>

\* hash = ((hash << 5) + hash) + c, modulo 2^64
HashStep(h, c) ==
    LET t0 == h[1] * 33 + c
        t1 == h[2] * 33 + (t0 \div Limb)
        t2 == h[3] * 33 + (t1 \div Limb)
        t3 == h[4] * 33 + (t2 \div Limb)
    IN  <<t0 % Limb, t1 % Limb, t2 % Limb, t3 % Limb>>

\* the byte at 0-based offset i of a caller's buffer
At(buf, i) == buf[i + 1]

\* while ((c = *key++) && n++ <= key_len) hash = hash*33 + c
RECURSIVE HashLoop(_, _, _, _)
HashLoop(buf, key_len, i, h) ==
    IF At(buf, i) = 0 \/ ~(i <= key_len) THEN h
    ELSE HashLoop(buf, key_len, i + 1, HashStep(h, At(buf, i)))

_HT_hash(buf, key_len) == HashLoop(buf, key_len, 0, HashInit)

\* HT_CALC_LOC(ht, hashcode + d): (hashcode + d) & (cap - 1), cap a power
\* of two that divides 2^16
HT_CALC_LOC(capacity, h, d) == (h[1] + d) % capacity

(***************************************************************************)
(* The keys the caller passes: a zero-terminated buffer and a key_len.     *)
(* Key 0 stands for the NULL key pointer.                                  *)
(***************************************************************************)
Rep(c, m) == [i \in 1..m |-> c]

\* what sprintf(key, "key%d", i) writes before the terminator, i < 100
KeyName(i) ==
    <<107, 101, 121>> \o (IF i < 10 THEN <<48 + i>>
                          ELSE <<48 + (i \div 10), 48 + (i % 10)>>)

\* the keys "key0", "key1", ... : two more than a table of the default
\* capacity has buckets
LoopKeys ==
    [i \in 1..(HT_DEFAULT_CAPACITY + 2) |->
        [buf |-> KeyName(i - 1) \o <<0>>, len |-> Len(KeyName(i - 1))]]

KeyTable ==
    << [buf |-> <<106, 0>>,               len |-> 1],    \* "j"
       [buf |-> <<122, 0>>,               len |-> 1],    \* "z"
       [buf |-> <<0>>,                    len |-> 0],    \* ""
       [buf |-> Rep(120, 31) \o <<0>>,    len |-> 31],   \* 31 times "x"
       [buf |-> Rep(120, 32) \o <<0>>,    len |-> 32],   \* 32 times "x"
       [buf |-> <<106, 65, 0>>,           len |-> 1] >>  \* "j" inside "jA"
    \o LoopKeys

\* the numbers of the keys of LoopKeys in KeyTable
LoopKeyIds == 7..(6 + Len(LoopKeys))

NullKey == 0

KeyBuf(k) == KeyTable[k].buf

KeyLen(k) == IF k = NullKey THEN 0 ELSE KeyTable[k].len

\* table->hashcode(key, key_len) of each key of KeyTable, as a tuple
KeyHash == [k \in 1..Len(KeyTable) |-> _HT_hash(KeyTable[k].buf, KeyTable[k].len)] \o <<>>


ValidKeys == {k \in 1..Len(KeyTable) : KeyTable[k].len <= HT_MAX_KEY_LEN - 1}

\* the byte at offset i of an entry's k
Byte(ek, i) == IF i < Len(ek) THEN ek[i + 1] ELSE 0

\* the entry's k that holds byte f[i] at each offset i
Pack(f) ==
    LET m == IF \A i \in 0..(HT_MAX_KEY_LEN - 1) : f[i] = 0 THEN 0
             ELSE 1 + CHOOSE i \in 0..(HT_MAX_KEY_LEN - 1) :
                          f[i] # 0 /\ \A j \in (i + 1)..(HT_MAX_KEY_LEN - 1) : f[j] = 0
    IN  [i \in 1..m |-> f[i - 1]]

\* strlen(key): the offset of the first zero byte of the buffer
RECURSIVE StrLenFrom(_, _)
StrLenFrom(buf, i) == IF At(buf, i) = 0 THEN i ELSE StrLenFrom(buf, i + 1)

KeyStrLen == [k \in 1..Len(KeyTable) |-> StrLenFrom(KeyTable[k].buf, 0)] \o <<>>

\* the byte strncpy(dst, key, key_len) writes at offset i < key_len: the
\* key's byte up to its terminator, zero padding after it
StrncpyByte(k, i) == IF i < KeyStrLen[k] THEN At(KeyBuf(k), i) ELSE 0

\* strncmp(key, e->k, len) == 0, ek an entry's k: the bytes agree at every
\* offset below len up to and including the key's terminator
StrncmpEq(k, ek, len) ==
    \A i \in 0..(len - 1) : i <= KeyStrLen[k] => At(KeyBuf(k), i) = Byte(ek, i)

(***************************************************************************)
(* The table: HT_BUCKET_T, HT_ENTRY_T, HT_T                                *)
(***************************************************************************)
ZeroHash == <<0, 0, 0, 0>>

EmptyBucket == [hashcode |-> ZeroHash, loc |-> 0, state |-> HT_EMPTY_BUCKET]

\* memset(values[i].k, '\0', HT_MAX_KEY_LEN); k_len = 0; v = NULL
ZeroEntry == [k |-> Pack([i \in 0..(HT_MAX_KEY_LEN - 1) |-> 0]), k_len |-> 0, v |-> NULL]

VARIABLES
    tstate,       \* the caller's HT_T pointer: "null", "live" or "freed"
    index,        \* table->index, 0..cap-1 -> HT_BUCKET_T
    values,       \* table->values, 0..cap-1 -> HT_ENTRY_T
    n, cap, expand, max_probe, ins_loc, load_factor,
    clobber,      \* the build: does a write to k[HT_MAX_KEY_LEN] reach k_len
    keys,         \* the keys this caller passes
    nulls,        \* does this caller pass NULL value handles
    inorder,      \* does this caller put its keys in ascending order
    removes,      \* the keys this caller removes
    budget,       \* how many put/remove calls this caller makes
    ops,          \* put/remove calls made so far
    last,         \* the last call: its arguments, result and effect
    amap,         \* the abstract map: what the caller put and did not remove
    hist,         \* what the calls so far were
    req           \* the arguments of the construction

tbl == <<index, values, n, cap, expand, max_probe, ins_loc, load_factor>>

vars == <<tstate, index, values, n, cap, expand, max_probe, ins_loc, load_factor,
          clobber, keys, nulls, inorder, removes, budget, ops, last, amap, hist, req>>

\* the table as one record
T == [index |-> index, values |-> values, n |-> n, cap |-> cap, expand |-> expand,
      max_probe |-> max_probe, ins_loc |-> ins_loc, load_factor |-> load_factor]

NoTable == [index |-> <<>>, values |-> <<>>, n |-> 0, cap |-> 0, expand |-> 0,
            max_probe |-> 0, ins_loc |-> 0, load_factor |-> 0]

(***************************************************************************)
(* HT_new_ex: alloc names the allocation that fails, or "ok"               *)
(***************************************************************************)
HT_new_ex(requested_capacity, lf, alloc) ==
    LET r1 == IF requested_capacity < HT_DEFAULT_CAPACITY THEN HT_DEFAULT_CAPACITY
              ELSE requested_capacity
        r2 == IF r1 > HT_MAX_CAPACITY THEN HT_MAX_CAPACITY ELSE r1
        lf2 == IF lf < 10 \/ lf > 100 THEN HT_DEFAULT_LOAD_FACTOR ELSE lf
        capacity == _HT_round_up(r2)
    IN  IF alloc # "ok" THEN [ok |-> FALSE, t |-> NoTable]
        ELSE [ok |-> TRUE,
              t  |-> [index |-> [i \in 0..(capacity - 1) |-> EmptyBucket],
                      values |-> [i \in 0..(capacity - 1) |-> ZeroEntry],
                      n |-> 0, cap |-> capacity,
                      expand |-> _HT_calc_expansion(lf2, capacity),
                      max_probe |-> 0, ins_loc |-> 0, load_factor |-> lf2]]

(***************************************************************************)
(* The probe loops                                                         *)
(***************************************************************************)
\* b->state == OCCUPIED && b->hashcode == hashcode && e->k_len == key_len
\* && cmp(key, e->k, key_len) == 0, for the bucket at probe distance d
Match(t, k, d) ==
    LET b == t.index[HT_CALC_LOC(t.cap, KeyHash[k], d)]
        e == t.values[b.loc]
    IN  /\ b.state = HT_BUCKET_OCCUPIED
        /\ b.hashcode = KeyHash[k]
        /\ e.k_len = KeyLen(k)
        /\ StrncmpEq(k, e.k, KeyLen(k))

StateAt(t, k, d) == t.index[HT_CALC_LOC(t.cap, KeyHash[k], d)].state

\* the loop of HT_get with `probe_len <= table->cap' for its bound
RECURSIVE LookupToCap(_, _, _)
LookupToCap(t, k, d) ==
    IF ~(d <= t.cap) THEN [found |-> FALSE, d |-> d, probes |-> d]
    ELSE IF Match(t, k, d) THEN [found |-> TRUE, d |-> d, probes |-> d + 1]
    ELSE IF StateAt(t, k, d) = HT_EMPTY_BUCKET
    THEN [found |-> FALSE, d |-> d, probes |-> d + 1]
    ELSE LookupToCap(t, k, d + 1)

\* the loop of HT_get, HT_exists and HT_remove from probe_len = d on:
\* while probe_len <= max_probe, return on a match or on an EMPTY bucket
RECURSIVE LookupLoop(_, _, _)
LookupLoop(t, k, d) ==
    IF ~(d <= t.max_probe) THEN [found |-> FALSE, d |-> d, probes |-> d]
    ELSE IF Match(t, k, d) THEN [found |-> TRUE, d |-> d, probes |-> d + 1]
    ELSE IF StateAt(t, k, d) = HT_EMPTY_BUCKET
    THEN [found |-> FALSE, d |-> d, probes |-> d + 1]
    ELSE LookupLoop(t, k, d + 1)

Lookup(t, k) == LookupLoop(t, k, 0)

ValidArgs(ts, k) == ts # "null" /\ k # NullKey /\ ~(KeyLen(k) > HT_MAX_KEY_LEN - 1)

HT_get(ts, t, k) ==
    IF ~ValidArgs(ts, k) THEN NULL
    ELSE LET r == Lookup(t, k)
         IN  IF r.found
             THEN t.values[t.index[HT_CALC_LOC(t.cap, KeyHash[k], r.d)].loc].v
             ELSE NULL

\* HT_exists looking at the home bucket of the key only
ExistsHomeOnly(ts, t, k) ==
    IF ~ValidArgs(ts, k) THEN 0
    ELSE IF Match(t, k, 0) THEN 1 ELSE 0

HT_exists(ts, t, k) ==
    IF ~ValidArgs(ts, k) THEN 0
    ELSE IF Lookup(t, k).found THEN 1 ELSE 0

(***************************************************************************)
(* _HT_expand: alloc names the calloc that fails, or "ok"                  *)
(***************************************************************************)
\* the probe loop of _HT_expand from probe_len = d on: the first distance
\* <= cap at which the new index has no OCCUPIED bucket, cap + 1 if none
RECURSIVE FreeProbe(_, _, _, _)
FreeProbe(new_index, new_cap, h, d) ==
    IF ~(d <= new_cap) THEN d
    ELSE IF new_index[HT_CALC_LOC(new_cap, h, d)].state # HT_BUCKET_OCCUPIED THEN d
    ELSE FreeProbe(new_index, new_cap, h, d + 1)

\* the copying loop of _HT_expand copying the DELETED buckets too
RECURSIVE CopyIndexAll(_, _, _, _, _)
CopyIndexAll(old_index, old_cap, new_cap, i, acc) ==
    IF i >= old_cap THEN acc
    ELSE IF old_index[i].state = HT_EMPTY_BUCKET
    THEN CopyIndexAll(old_index, old_cap, new_cap, i + 1, acc)
    ELSE LET b == old_index[i]
             d == FreeProbe(acc.index, new_cap, b.hashcode, 0)
         IN  IF d > new_cap
             THEN CopyIndexAll(old_index, old_cap, new_cap, i + 1,
                               [acc EXCEPT !.dropped = @ + 1])
             ELSE CopyIndexAll(old_index, old_cap, new_cap, i + 1,
                    [acc EXCEPT
                       !.index[HT_CALC_LOC(new_cap, b.hashcode, d)] = b,
                       !.max_probe = Max(@, d)])

\* the loop that copies the OCCUPIED buckets old_index[i..] into the new
\* index; acc is the new index, max_probe and the buckets "not added"
RECURSIVE CopyIndex(_, _, _, _, _)
CopyIndex(old_index, old_cap, new_cap, i, acc) ==
    IF i >= old_cap THEN acc
    ELSE IF old_index[i].state # HT_BUCKET_OCCUPIED
    THEN CopyIndex(old_index, old_cap, new_cap, i + 1, acc)
    ELSE LET b == old_index[i]
             d == FreeProbe(acc.index, new_cap, b.hashcode, 0)
         IN  IF d > new_cap
             THEN CopyIndex(old_index, old_cap, new_cap, i + 1,
                            [acc EXCEPT !.dropped = @ + 1])
             ELSE CopyIndex(old_index, old_cap, new_cap, i + 1,
                    [acc EXCEPT
                       !.index[HT_CALC_LOC(new_cap, b.hashcode, d)] = b,
                       !.max_probe = Max(@, d)])

\* _HT_expand storing the new index, cap and expand in the table before it
\* allocates the new values
ExpandCommitEarly(t, alloc) ==
    LET capacity == _HT_round_up(t.cap * 2)
        acc == CopyIndex(t.index, t.cap, capacity, 0,
                         [index |-> [i \in 0..(capacity - 1) |-> EmptyBucket],
                          max_probe |-> 0, dropped |-> 0])
        grown == [index |-> acc.index,
                  values |-> [i \in 0..(capacity - 1) |->
                                IF i < t.cap THEN t.values[i] ELSE ZeroEntry],
                  n |-> t.n, cap |-> capacity,
                  expand |-> _HT_calc_expansion(t.load_factor, capacity),
                  max_probe |-> acc.max_probe, ins_loc |-> t.ins_loc,
                  load_factor |-> t.load_factor]
    IN  IF alloc = "index" THEN [ok |-> FALSE, dropped |-> 0, t |-> t]
        ELSE IF alloc = "values"
        THEN [ok |-> FALSE, dropped |-> 0,
              t |-> [t EXCEPT !.index = [i \in 0..(capacity - 1) |-> EmptyBucket],
                              !.cap = capacity,
                              !.expand = _HT_calc_expansion(t.load_factor, capacity)]]
        ELSE [ok |-> TRUE, dropped |-> acc.dropped, t |-> grown]

\* _HT_expand restarting the entries cursor at the number of live items
ExpandCompactsCursor(t, alloc) ==
    LET capacity == _HT_round_up(t.cap * 2)
        acc == CopyIndex(t.index, t.cap, capacity, 0,
                         [index |-> [i \in 0..(capacity - 1) |-> EmptyBucket],
                          max_probe |-> 0, dropped |-> 0])
    IN  IF alloc # "ok" THEN [ok |-> FALSE, dropped |-> 0, t |-> t]
        ELSE [ok |-> TRUE, dropped |-> acc.dropped,
              t  |-> [index |-> acc.index,
                      values |-> [i \in 0..(capacity - 1) |->
                                    IF i < t.cap THEN t.values[i] ELSE ZeroEntry],
                      n |-> t.n, cap |-> capacity,
                      expand |-> _HT_calc_expansion(t.load_factor, capacity),
                      max_probe |-> acc.max_probe, ins_loc |-> t.n,
                      load_factor |-> t.load_factor]]

_HT_expand(t, alloc) ==
    LET capacity == _HT_round_up(t.cap * 2)
        acc == CopyIndex(t.index, t.cap, capacity, 0,
                         [index |-> [i \in 0..(capacity - 1) |-> EmptyBucket],
                          max_probe |-> 0, dropped |-> 0])
    IN  IF alloc # "ok" THEN [ok |-> FALSE, dropped |-> 0, t |-> t]
        ELSE [ok |-> TRUE, dropped |-> acc.dropped,
              t  |-> [index |-> acc.index,
                      values |-> [i \in 0..(capacity - 1) |->
                                    IF i < t.cap THEN t.values[i] ELSE ZeroEntry],
                      n |-> t.n, cap |-> capacity,
                      expand |-> _HT_calc_expansion(t.load_factor, capacity),
                      max_probe |-> acc.max_probe, ins_loc |-> t.ins_loc,
                      load_factor |-> t.load_factor]]

(***************************************************************************)
(* HT_put                                                                  *)
(***************************************************************************)
\* e->k_len = key_len; e->v = value; strncpy(e->k, key, key_len);
\* e->k[key_len + 1] = '\0'.  For key_len = HT_MAX_KEY_LEN - 1 the last write
\* is outside k: where k_len follows k and its low byte comes first (clob)
\* the write clears that byte, otherwise it leaves the entry as it is.
WriteEntry(e, k, v, clob) ==
    LET key_len == KeyLen(k)
        copied == [i \in 0..(HT_MAX_KEY_LEN - 1) |->
                     IF i < key_len THEN StrncpyByte(k, i) ELSE Byte(e.k, i)]
    IN  IF key_len + 1 < HT_MAX_KEY_LEN
        THEN [k |-> Pack([copied EXCEPT ![key_len + 1] = 0]),
              k_len |-> key_len, v |-> v]
        ELSE [k |-> Pack(copied),
              k_len |-> IF clob THEN (key_len \div 256) * 256 ELSE key_len,
              v |-> v]

\* what a call leaves: the table, the value returned, which return was taken,
\* the entries slot an insert wrote and whether it wrote outside the slot's k
Result(t, ret, kind, slot, oob) ==
    [t |-> t, ret |-> ret, kind |-> kind, slot |-> slot, oob |-> oob]

\* PutAt counting the key again when it updates
PutAtUpdateCounts(t, k, v, clob, d) ==
    LET p == HT_CALC_LOC(t.cap, KeyHash[k], d)
        b == t.index[p]
        slot == IF b.state = HT_EMPTY_BUCKET THEN t.ins_loc ELSE b.loc
    IN  IF b.state = HT_BUCKET_OCCUPIED
        THEN Result([t EXCEPT !.values[b.loc].v = v, !.n = @ + 1],
                    v, "update", b.loc, FALSE)
        ELSE IF slot >= t.cap THEN Result(t, NULL, "wild", slot, TRUE)
        ELSE Result([t EXCEPT
                       !.ins_loc = IF b.state = HT_EMPTY_BUCKET THEN @ + 1 ELSE @,
                       !.values[slot] = WriteEntry(@, k, v, clob),
                       !.index[p] = [hashcode |-> KeyHash[k], loc |-> slot,
                                     state |-> HT_BUCKET_OCCUPIED],
                       !.max_probe = Max(@, d),
                       !.n = @ + 1],
                    v, "insert", slot, ~(KeyLen(k) + 1 < HT_MAX_KEY_LEN))

\* PutAt with `table->ins_loc' for `table->ins_loc++'
PutAtKeepCursor(t, k, v, clob, d) ==
    LET p == HT_CALC_LOC(t.cap, KeyHash[k], d)
        b == t.index[p]
        slot == IF b.state = HT_EMPTY_BUCKET THEN t.ins_loc ELSE b.loc
    IN  IF b.state = HT_BUCKET_OCCUPIED
        THEN Result([t EXCEPT !.values[b.loc].v = v], v, "update", b.loc, FALSE)
        ELSE IF slot >= t.cap THEN Result(t, NULL, "wild", slot, TRUE)
        ELSE Result([t EXCEPT
                       !.values[slot] = WriteEntry(@, k, v, clob),
                       !.index[p] = [hashcode |-> KeyHash[k], loc |-> slot,
                                     state |-> HT_BUCKET_OCCUPIED],
                       !.max_probe = Max(@, d),
                       !.n = @ + 1],
                    v, "insert", slot, ~(KeyLen(k) + 1 < HT_MAX_KEY_LEN))

\* PutAt without `if (probe_len > table->max_probe) table->max_probe = probe_len'
PutAtKeepProbe(t, k, v, clob, d) ==
    LET p == HT_CALC_LOC(t.cap, KeyHash[k], d)
        b == t.index[p]
        slot == IF b.state = HT_EMPTY_BUCKET THEN t.ins_loc ELSE b.loc
    IN  IF b.state = HT_BUCKET_OCCUPIED
        THEN Result([t EXCEPT !.values[b.loc].v = v], v, "update", b.loc, FALSE)
        ELSE IF slot >= t.cap THEN Result(t, NULL, "wild", slot, TRUE)
        ELSE Result([t EXCEPT
                       !.ins_loc = IF b.state = HT_EMPTY_BUCKET THEN @ + 1 ELSE @,
                       !.values[slot] = WriteEntry(@, k, v, clob),
                       !.index[p] = [hashcode |-> KeyHash[k], loc |-> slot,
                                     state |-> HT_BUCKET_OCCUPIED],
                       !.n = @ + 1],
                    v, "insert", slot, ~(KeyLen(k) + 1 < HT_MAX_KEY_LEN))

\* what HT_put does at the bucket at probe distance d where its loop returns
PutAt(t, k, v, clob, d) ==
    LET p == HT_CALC_LOC(t.cap, KeyHash[k], d)
        b == t.index[p]
        slot == IF b.state = HT_EMPTY_BUCKET THEN t.ins_loc ELSE b.loc
    IN  IF b.state = HT_BUCKET_OCCUPIED
        THEN Result([t EXCEPT !.values[b.loc].v = v], v, "update", b.loc, FALSE)
        ELSE IF slot >= t.cap THEN Result(t, NULL, "wild", slot, TRUE)
        ELSE Result([t EXCEPT
                       !.ins_loc = IF b.state = HT_EMPTY_BUCKET THEN @ + 1 ELSE @,
                       !.values[slot] = WriteEntry(@, k, v, clob),
                       !.index[p] = [hashcode |-> KeyHash[k], loc |-> slot,
                                     state |-> HT_BUCKET_OCCUPIED],
                       !.max_probe = Max(@, d),
                       !.n = @ + 1],
                    v, "insert", slot, ~(KeyLen(k) + 1 < HT_MAX_KEY_LEN))

\* the probe loop of HT_put from probe_len = d on: while probe_len <= cap,
\* update on a match, insert at a bucket that is not OCCUPIED
RECURSIVE PutLoop(_, _, _, _, _)
PutLoop(t, k, v, clob, d) ==
    IF ~(d <= t.cap) THEN Result(t, NULL, "full", 0, FALSE)
    ELSE IF Match(t, k, d) \/ StateAt(t, k, d) # HT_BUCKET_OCCUPIED
    THEN PutAt(t, k, v, clob, d)
    ELSE PutLoop(t, k, v, clob, d + 1)

PutProbe(t, k, v, clob) == PutLoop(t, k, v, clob, 0)

\* the test of HT_put without `n == cap' and `ins_loc == cap'
NeedsExpandLoadOnly(t) == t.n > t.expand

\* the test of HT_put with n >= expand for n > expand
NeedsExpandAtThreshold(t) == t.n >= t.expand \/ t.n = t.cap \/ t.ins_loc = t.cap

NeedsExpand(t) == t.n > t.expand \/ t.n = t.cap \/ t.ins_loc = t.cap

\* HT_put expanding the table before it looks at its arguments
PutExpandFirst(ts, t, k, v, alloc, clob) ==
    IF ts = "null" THEN Result(t, NULL, "invalid", 0, FALSE)
    ELSE IF NeedsExpand(t) /\ ~_HT_expand(t, alloc).ok
    THEN Result(_HT_expand(t, alloc).t, NULL, "nomem", 0, FALSE)
    ELSE IF ~ValidArgs(ts, k)
    THEN Result(IF NeedsExpand(t) THEN _HT_expand(t, alloc).t ELSE t,
                NULL, "invalid", 0, FALSE)
    ELSE PutProbe(IF NeedsExpand(t) THEN _HT_expand(t, alloc).t ELSE t, k, v, clob)

HT_put(ts, t, k, v, alloc, clob) ==
    IF ~ValidArgs(ts, k) THEN Result(t, NULL, "invalid", 0, FALSE)
    ELSE IF NeedsExpand(t) /\ ~_HT_expand(t, alloc).ok
    THEN Result(_HT_expand(t, alloc).t, NULL, "nomem", 0, FALSE)
    ELSE PutProbe(IF NeedsExpand(t) THEN _HT_expand(t, alloc).t ELSE t, k, v, clob)

(***************************************************************************)
(* HT_remove                                                               *)
(***************************************************************************)
\* HT_remove clearing the loc of the bucket it deletes
RemoveClearsLoc(ts, t, k) ==
    IF ~ValidArgs(ts, k) THEN Result(t, NULL, "invalid", 0, FALSE)
    ELSE LET r == Lookup(t, k)
             p == HT_CALC_LOC(t.cap, KeyHash[k], r.d)
             loc == t.index[p].loc
         IN  IF ~r.found THEN Result(t, NULL, "absent", 0, FALSE)
             ELSE Result([t EXCEPT
                            !.values[loc] =
                                [k |-> Pack([i \in 0..(HT_MAX_KEY_LEN - 1) |->
                                               IF i = 0 THEN 0 ELSE Byte(@.k, i)]),
                                 k_len |-> 0, v |-> NULL],
                            !.index[p] = [hashcode |-> ZeroHash, loc |-> 0,
                                          state |-> HT_DELETED_BUCKET],
                            !.n = @ - 1],
                         t.values[loc].v, "removed", loc, FALSE)

\* HT_remove leaving n as it is
RemoveKeepsCount(ts, t, k) ==
    IF ~ValidArgs(ts, k) THEN Result(t, NULL, "invalid", 0, FALSE)
    ELSE LET r == Lookup(t, k)
             p == HT_CALC_LOC(t.cap, KeyHash[k], r.d)
             loc == t.index[p].loc
         IN  IF ~r.found THEN Result(t, NULL, "absent", 0, FALSE)
             ELSE Result([t EXCEPT
                            !.values[loc] =
                                [k |-> Pack([i \in 0..(HT_MAX_KEY_LEN - 1) |->
                                               IF i = 0 THEN 0 ELSE Byte(@.k, i)]),
                                 k_len |-> 0, v |-> NULL],
                            !.index[p] = [hashcode |-> ZeroHash, loc |-> @.loc,
                                          state |-> HT_DELETED_BUCKET]],
                         t.values[loc].v, "removed", loc, FALSE)

HT_remove(ts, t, k) ==
    IF ~ValidArgs(ts, k) THEN Result(t, NULL, "invalid", 0, FALSE)
    ELSE LET r == Lookup(t, k)
             p == HT_CALC_LOC(t.cap, KeyHash[k], r.d)
             loc == t.index[p].loc
         IN  IF ~r.found THEN Result(t, NULL, "absent", 0, FALSE)
             ELSE Result([t EXCEPT
                            !.values[loc] =
                                [k |-> Pack([i \in 0..(HT_MAX_KEY_LEN - 1) |->
                                               IF i = 0 THEN 0 ELSE Byte(@.k, i)]),
                                 k_len |-> 0, v |-> NULL],
                            !.index[p] = [hashcode |-> ZeroHash, loc |-> @.loc,
                                          state |-> HT_DELETED_BUCKET],
                            !.n = @ - 1],
                         t.values[loc].v, "removed", loc, FALSE)

(***************************************************************************)
(* HT_free: the number of calls of table->dealloc                          *)
(***************************************************************************)
\* HT_free calling table->dealloc for NULL value handles too
FreeEveryOccupied(t) ==
    Cardinality({i \in 0..(t.cap - 1) : t.index[i].state = HT_BUCKET_OCCUPIED})

HT_free(t) ==
    Cardinality({i \in 0..(t.cap - 1) :
                    /\ t.index[i].state = HT_BUCKET_OCCUPIED
                    /\ t.values[t.index[i].loc].v # NULL})

(***************************************************************************)
(* The callers.  A caller constructs one table, then calls put, get,       *)
(* exists and remove with keys of its key set, and may free the table.     *)
(* Each put passes NULL or a handle no earlier put passed.                 *)
(***************************************************************************)
Absent == 0 - 1

\* the callers of Spec: keys that collide and wrap around at capacity 16;
\* the empty key, the longest key and the invalid keys; four keys in a table
\* of maximal capacity
Callers ==
    { [keys |-> {1, 2},          nulls |-> TRUE,  reqs |-> {HT_DEFAULT_CAPACITY},
       lfs |-> {10, HT_DEFAULT_LOAD_FACTOR}, inorder |-> FALSE, removes |-> {1, 2}],
      [keys |-> {NullKey, 3, 4, 5}, nulls |-> TRUE,  reqs |-> {0}, lfs |-> {10},
       inorder |-> FALSE, removes |-> {NullKey, 3, 4, 5}],
      [keys |-> {1, 2, 3, 4},    nulls |-> FALSE, reqs |-> {HT_MAX_CAPACITY + 1},
       lfs |-> {10}, inorder |-> FALSE, removes |-> {1, 2, 3, 4}] }

AllocNew == {"ok", "index", "values", "table"}

AllocExpand == {"ok", "index", "values"}

Need == tstate = "live" /\ NeedsExpand(T)

\* a call as `last' keeps it: the operation, its key, value handle and the
\* allocation that fails in it, what it returned (r), and before the call n,
\* exists(key) and whether the table was due to expand
Call(op, k, v, alloc, r) ==
    [op |-> op, key |-> k, val |-> v, alloc |-> alloc,
     ret |-> r.ret, kind |-> r.kind, slot |-> r.slot, oob |-> r.oob,
     n0 |-> n, pre |-> HT_exists(tstate, T, k), need |-> Need]

InitFor(callers, maxops) ==
    \E c \in callers, alloc \in AllocNew, cl \in BOOLEAN :
      \E r \in c.reqs, lf \in c.lfs :
        LET new == HT_new_ex(r, lf, alloc)
        IN  /\ tstate = IF new.ok THEN "live" ELSE "null"
            /\ index = new.t.index
            /\ values = new.t.values
            /\ n = new.t.n
            /\ cap = new.t.cap
            /\ expand = new.t.expand
            /\ max_probe = new.t.max_probe
            /\ ins_loc = new.t.ins_loc
            /\ load_factor = new.t.load_factor
            /\ clobber = cl
            /\ keys = c.keys
            /\ nulls = c.nulls
            /\ inorder = c.inorder
            /\ removes = c.removes
            /\ budget = maxops
            /\ ops = 0
            /\ last = [op |-> "new", key |-> NullKey, val |-> NULL, alloc |-> alloc,
                       ret |-> IF new.ok THEN 1 ELSE 0,
                       kind |-> IF new.ok THEN "ok" ELSE "nomem",
                       slot |-> 0, oob |-> FALSE,
                       n0 |-> 0, pre |-> 0, need |-> FALSE]
            /\ amap = [k \in ValidKeys |-> Absent]
            /\ hist = [distinct_puts |-> TRUE, resizes |-> 0, dealloc_calls |-> 0]
            /\ req = [cap |-> r, lf |-> lf]

Init == InitFor(Callers, MaxOps)

SetTable(t) ==
    /\ index' = t.index
    /\ values' = t.values
    /\ n' = t.n
    /\ cap' = t.cap
    /\ expand' = t.expand
    /\ max_probe' = t.max_probe
    /\ ins_loc' = t.ins_loc
    /\ load_factor' = t.load_factor

Put(k, v, alloc) ==
    LET r == HT_put(tstate, T, k, v, alloc, clobber)
        done == r.kind \in {"insert", "update"}
    IN  /\ tstate # "freed"
        /\ ops < budget
        /\ SetTable(r.t)
        /\ ops' = ops + 1
        /\ last' = Call("put", k, v, alloc, r)
        /\ amap' = IF done THEN [amap EXCEPT ![k] = v] ELSE amap
        /\ hist' = [hist EXCEPT
                      !.distinct_puts = @ /\ done /\ amap[k] = Absent,
                      !.resizes = IF Need /\ r.kind \in {"insert", "update", "full", "wild"}
                                  THEN @ + 1 ELSE @]
        /\ UNCHANGED <<tstate, clobber, keys, nulls, inorder, removes, budget, req>>

Remove(k) ==
    LET r == HT_remove(tstate, T, k)
    IN  /\ tstate # "freed"
        /\ ops < budget
        /\ SetTable(r.t)
        /\ ops' = ops + 1
        /\ last' = Call("remove", k, NULL, "ok", r)
        /\ amap' = IF k \in ValidKeys THEN [amap EXCEPT ![k] = Absent] ELSE amap
        /\ hist' = [hist EXCEPT !.distinct_puts = FALSE]
        /\ UNCHANGED <<tstate, clobber, keys, nulls, inorder, removes, budget, req>>

\* HT_get and HT_exists write nothing: what they return is HT_get(tstate, T, k)
\* and HT_exists(tstate, T, k)
Get(k) ==
    /\ tstate # "freed"
    /\ HT_get(tstate, T, k) \in Int
    /\ UNCHANGED vars

Exists(k) ==
    /\ tstate # "freed"
    /\ HT_exists(tstate, T, k) \in {0, 1}
    /\ UNCHANGED vars

Free ==
    /\ tstate # "freed"
    /\ tstate' = IF tstate = "live" THEN "freed" ELSE tstate
    /\ last' = Call("free", NullKey, NULL, "ok", Result(T, NULL, "freed", 0, FALSE))
    /\ hist' = [hist EXCEPT
                  !.dealloc_calls = IF tstate = "live" THEN HT_free(T) ELSE 0]
    /\ UNCHANGED <<tbl, clobber, keys, nulls, inorder, removes, budget, ops, amap, req>>

Handles == IF nulls THEN {NULL, ops + 1} ELSE {ops + 1}

\* the keys the caller put and did not remove afterwards
Kept == {k \in ValidKeys : amap[k] # Absent}

\* a caller that goes through its keys in ascending order, as the loops of
\* main do, puts the first key after those it has in the table and removes
\* keys it has in the table
InOrderPut(k) == inorder => \A j \in keys : (j < k) <=> (\E i \in Kept : j <= i)

InOrderRemove(k) == inorder => k \in Kept

PutCall ==
    \E k \in keys, v \in Handles, alloc \in AllocExpand :
        /\ (alloc # "ok" => Need /\ ValidArgs(tstate, k))
        /\ InOrderPut(k)
        /\ Put(k, v, alloc)

RemoveCall == \E k \in removes : InOrderRemove(k) /\ Remove(k)

GetCall == \E k \in keys : Get(k)

ExistsCall == \E k \in keys : Exists(k)

Next == PutCall \/ RemoveCall \/ GetCall \/ ExistsCall \/ Free

Spec == Init /\ [][Next]_vars

(***************************************************************************)
(* The callers of SpecNew: every requested capacity up to twice the        *)
(* maximum and load factors in and out of [0.1, 1.0]                       *)
(***************************************************************************)
MaxOpsNew == 1

NewCallers ==
    { [keys |-> {1, 2}, nulls |-> FALSE, reqs |-> 0..(2 * HT_MAX_CAPACITY + 1),
       lfs |-> {0, 9, 10, 50, HT_DEFAULT_LOAD_FACTOR, 100, 101},
       inorder |-> FALSE, removes |-> {1, 2}] }

InitNew == InitFor(NewCallers, MaxOpsNew)

SpecNew == InitNew /\ [][Next]_vars

(***************************************************************************)
(* The callers of SpecFill: the loops of main, which put "key0", "key1",   *)
(* ... into a table of the default capacity until it has no EMPTY bucket   *)
(* left, with the default load factor and with load factor 1.0, and remove *)
(* "key0"                                                                  *)
(***************************************************************************)
MaxOpsFill == 18

FillCallers ==
    { [keys |-> LoopKeyIds, nulls |-> FALSE, reqs |-> {HT_DEFAULT_CAPACITY},
       lfs |-> {HT_DEFAULT_LOAD_FACTOR, 100}, inorder |-> TRUE, removes |-> {7}] }

InitFill == InitFor(FillCallers, MaxOpsFill)

SpecFill == InitFill /\ [][Next]_vars

(***************************************************************************)
(* The callers of SpecHash: key "j" of length 1 passed in a buffer that    *)
(* ends after it and in a buffer that goes on with "A"; and the keys       *)
(* "key1" and "key10", zero-terminated, of one home bucket at the default  *)
(* capacity                                                                *)
(***************************************************************************)
MaxOpsHash == 4

HashCallers ==
    { [keys |-> {1, 6}, nulls |-> FALSE, reqs |-> {HT_DEFAULT_CAPACITY},
       lfs |-> {10, HT_DEFAULT_LOAD_FACTOR}, inorder |-> FALSE, removes |-> {1, 6}],
      [keys |-> {8, 17}, nulls |-> FALSE, reqs |-> {HT_DEFAULT_CAPACITY},
       lfs |-> {10, HT_DEFAULT_LOAD_FACTOR}, inorder |-> FALSE, removes |-> {8, 17}] }

InitHash == InitFor(HashCallers, MaxOpsHash)

SpecHash == InitHash /\ [][Next]_vars

(***************************************************************************)
(* What the caller observes                                                *)
(***************************************************************************)
GetOf(k) == HT_get(tstate, T, k)

ExistsOf(k) == HT_exists(tstate, T, k)

Succeeded(call) == call.op = "put" /\ call.kind \in {"insert", "update"}

(***************************************************************************)
(* C1. Round trip: after successful puts of pairwise distinct keys and     *)
(* nothing else, get(k) returns the value put with k and exists(k) is true *)
(* for every key put.                                                      *)
(***************************************************************************)
C1_RoundTrip ==
    (tstate = "live" /\ hist.distinct_puts) =>
        \A k \in Kept : GetOf(k) = amap[k] /\ ExistsOf(k) = 1

(***************************************************************************)
(* C2. Removal: after remove(k) of a key for which exists(k) was true,     *)
(* exists(k) is false, get(k) is NULL and n is one less than before.       *)
(***************************************************************************)
C2_Removal ==
    (last.op = "remove" /\ last.pre = 1) =>
        /\ ExistsOf(last.key) = 0
        /\ GetOf(last.key) = NULL
        /\ n = last.n0 - 1

(***************************************************************************)
(* C3. Resize preservation: once a put has expanded the table, every key   *)
(* put and not removed afterwards exists, and get returns the value of its *)
(* last put.                                                               *)
(***************************************************************************)
C3_ResizePreservation ==
    (tstate = "live" /\ hist.resizes >= 1) =>
        \A k \in Kept : ExistsOf(k) = 1 /\ GetOf(k) = amap[k]

(***************************************************************************)
(* C4. Update in place: a successful put(k, v2) right after a successful   *)
(* put(k, v1) leaves n as the first put left it, and get(k) returns v2.    *)
(***************************************************************************)
C4_UpdateInPlace ==
    [][(Succeeded(last) /\ Succeeded(last') /\ last'.key = last.key /\ ops' = ops + 1)
          => (n' = n /\ GetOf(last.key)' = last'.val)]_vars

IsPowerOfTwo(x) == \E i \in 0..30 : x = 2^i

CapInRange ==
    tstate # "null" =>
        IsPowerOfTwo(cap) /\ HT_DEFAULT_CAPACITY <= cap /\ cap <= HT_MAX_CAPACITY

(***************************************************************************)
(* C5. Capacity: in every step cap does not decrease, and in every state   *)
(* of a constructed table it is a power of two between HT_DEFAULT_CAPACITY *)
(* and HT_MAX_CAPACITY.                                                    *)
(***************************************************************************)
C5_CapacityMonotone == [][cap' >= cap /\ CapInRange']_vars

\* the OCCUPIED buckets whose entry holds a NULL value handle
NullLive ==
    Cardinality({i \in 0..(cap - 1) :
                    /\ index[i].state = HT_BUCKET_OCCUPIED
                    /\ values[index[i].loc].v = NULL})

\* C6 as claimed: HT_free calls the deallocator exactly n times.
C6_DeallocN == tstate = "freed" => hist.dealloc_calls = n

\* C6 as amended: HT_free calls the deallocator exactly n minus the number of
\* live entries with a NULL value handle times.
C6_DeallocNonNull == tstate = "freed" => hist.dealloc_calls = n - NullLive

C6_Witness ==
    tstate = "freed" /\ NullLive >= 1 /\ hist.dealloc_calls >= 1 /\ n >= 2

(***************************************************************************)
(* C7. Invalid arguments (a null table, a NULL key, key_len above          *)
(* HT_MAX_KEY_LEN - 1): get and remove and put return NULL, exists returns *)
(* 0, and the table with its index and entries is unchanged, also when the *)
(* table is due to expand.                                                 *)
(***************************************************************************)
C7_InvalidArgsNoOp ==
    [][/\ \A k \in keys : ~ValidArgs(tstate, k) => GetOf(k) = NULL /\ ExistsOf(k) = 0
       /\ (ops' = ops + 1 /\ ~ValidArgs(tstate, last'.key))
             => (last'.ret = NULL /\ UNCHANGED tbl /\ hist'.resizes = hist.resizes)]_vars

C7_Witness ==
    /\ tstate = "live"
    /\ last.op = "put"
    /\ last.key # NullKey /\ KeyLen(last.key) > HT_MAX_KEY_LEN - 1
    /\ last.need
    /\ last.ret = NULL

(***************************************************************************)
(* C8. A put whose table is due to expand and whose expansion fails to     *)
(* allocate returns NULL and leaves the table, its index and its entries   *)
(* as they were; get and exists answer as before for every key.            *)
(***************************************************************************)
C8_AllocFailure ==
    [][(ops' = ops + 1 /\ last'.op = "put" /\ last'.alloc # "ok")
          => /\ last'.ret = NULL
             /\ last'.kind = "nomem"
             /\ UNCHANGED tbl
             /\ \A k \in keys : GetOf(k)' = GetOf(k) /\ ExistsOf(k)' = ExistsOf(k)]_vars

C8_Witness ==
    /\ tstate = "live"
    /\ last.op = "put" /\ last.alloc = "values" /\ last.need
    /\ last.kind = "nomem"
    /\ n >= 2
    /\ \E k \in keys : ExistsOf(k) = 1

(***************************************************************************)
(* C9. Length boundary: put rejects a key of length HT_MAX_KEY_LEN or      *)
(* more; it accepts a key of length HT_MAX_KEY_LEN - 1, and inserting it   *)
(* writes inside the entry's k only and leaves k_len = HT_MAX_KEY_LEN - 1. *)
(***************************************************************************)
C9_LengthBoundary ==
    (tstate = "live" /\ last.op = "put" /\ last.key # NullKey) =>
        /\ KeyLen(last.key) >= HT_MAX_KEY_LEN
              => (last.kind = "invalid" /\ last.ret = NULL)
        /\ KeyLen(last.key) = HT_MAX_KEY_LEN - 1
              => last.kind \in {"insert", "update", "nomem"}
        /\ (KeyLen(last.key) = HT_MAX_KEY_LEN - 1 /\ last.kind = "insert")
              => (~last.oob /\ values[last.slot].k_len = HT_MAX_KEY_LEN - 1)

Clamped(r) ==
    IF r < HT_DEFAULT_CAPACITY THEN HT_DEFAULT_CAPACITY
    ELSE IF r > HT_MAX_CAPACITY THEN HT_MAX_CAPACITY ELSE r

(***************************************************************************)
(* C10. Construction: the table HT_new_ex returns has for cap the smallest *)
(* power of two that is at least the requested capacity clamped to         *)
(* [HT_DEFAULT_CAPACITY, HT_MAX_CAPACITY], expand = floor(load_factor * cap)*)
(* for its load factor (the requested one if in [0.1, 1.0], else the       *)
(* default), n = ins_loc = max_probe = 0 and only EMPTY buckets; a request *)
(* of 30 with the default load factor gives cap 32 and expand 24.          *)
(***************************************************************************)
C10_Construction ==
    (last.op = "new" /\ tstate = "live") =>
        /\ IsPowerOfTwo(cap) /\ cap >= Clamped(req.cap)
        /\ \A i \in 0..30 : 2^i >= Clamped(req.cap) => cap <= 2^i
        /\ load_factor = IF req.lf >= 10 /\ req.lf <= 100 THEN req.lf
                         ELSE HT_DEFAULT_LOAD_FACTOR
        /\ 100 * expand <= load_factor * cap /\ load_factor * cap < 100 * (expand + 1)
        /\ n = 0 /\ ins_loc = 0 /\ max_probe = 0
        /\ DOMAIN index = 0..(cap - 1) /\ DOMAIN values = 0..(cap - 1)
        /\ \A i \in 0..(cap - 1) : index[i].state = HT_EMPTY_BUCKET
        /\ (req.cap = 30 /\ req.lf = HT_DEFAULT_LOAD_FACTOR) => (cap = 32 /\ expand = 24)

C10_Witness ==
    /\ last.op = "new" /\ tstate = "live"
    /\ req.cap = 30 /\ req.lf = HT_DEFAULT_LOAD_FACTOR
    /\ cap = 32 /\ expand = 24

C12_NullValues ==
    [][\A k \in keys :
         /\ (ops' = ops + 1 /\ Succeeded(last') /\ last'.key = k /\ last'.val = NULL)
              => /\ ExistsOf(k)' = 1
                 /\ GetOf(k)' = NULL
                 /\ n' = n + (1 - ExistsOf(k))
         /\ (ops' = ops + 1 /\ last'.op = "remove" /\ last'.key = k
                /\ ExistsOf(k) = 1 /\ GetOf(k) = NULL)
              => /\ last'.ret = NULL
                 /\ ExistsOf(k)' = 0]_vars

\* the probe distance of the bucket at index p from its cached hash's home
ProbeDistance(p) == (p + cap - HT_CALC_LOC(cap, index[p].hashcode, 0)) % cap

(***************************************************************************)
(* C13. Probe bound: every OCCUPIED bucket at index p with cached hash h   *)
(* has probe distance (p - (h mod cap)) mod cap <= max_probe.              *)
(***************************************************************************)
C13_ProbeBound ==
    tstate = "live" =>
        \A p \in 0..(cap - 1) :
            index[p].state = HT_BUCKET_OCCUPIED => ProbeDistance(p) <= max_probe

C13_Witness ==
    /\ tstate = "live" /\ hist.resizes >= 1 /\ max_probe >= 1
    /\ \E p \in 0..(cap - 1) :
          index[p].state = HT_BUCKET_OCCUPIED /\ ProbeDistance(p) = max_probe
    /\ \E p \in 0..(cap - 1) : index[p].state = HT_DELETED_BUCKET

\* the number of EMPTY buckets of the index
EmptyBuckets == Cardinality({p \in 0..(cap - 1) : index[p].state = HT_EMPTY_BUCKET})

(***************************************************************************)
(* C14 as claimed. At least one bucket is EMPTY whenever n < cap.          *)
(***************************************************************************)
C14_EmptyWhenNotFull == (tstate = "live" /\ n < cap) => EmptyBuckets >= 1

(***************************************************************************)
(* C14 as amended. The index has at least cap - ins_loc EMPTY buckets, so  *)
(* at least one bucket is EMPTY whenever ins_loc < cap.                    *)
(***************************************************************************)
C14_EmptyWhenCursorNotAtEnd ==
    tstate = "live" => (ins_loc <= cap /\ EmptyBuckets >= cap - ins_loc)

C14_Witness ==
    /\ tstate = "live" /\ ins_loc = cap - 1 /\ EmptyBuckets = 1
    /\ \E p \in 0..(cap - 1) : index[p].state = HT_DELETED_BUCKET

(***************************************************************************)
(* C15. A put with a valid table, key and key length whose resize, if one  *)
(* is due, succeeds returns its value from inside its probe loop, after an *)
(* update or an insert; it never returns from below the loop.              *)
(***************************************************************************)
C15_PutFindsBucket ==
    [][(ops' = ops + 1 /\ last'.op = "put" /\ ValidArgs(tstate, last'.key)
          /\ last'.alloc = "ok")
          => (last'.kind \in {"insert", "update"} /\ last'.ret = last'.val)]_vars

C15_Witness ==
    /\ tstate = "live" /\ last.op = "put" /\ last.kind = "insert"
    /\ last.need /\ last.n0 = HT_DEFAULT_CAPACITY
    /\ cap = 2 * HT_DEFAULT_CAPACITY /\ n = last.n0 + 1

(***************************************************************************)
(* C16. Negative lookups: the loop of get, exists and remove, called with  *)
(* a key it does not find, examines at most max_probe + 1 buckets, also    *)
(* when no bucket is EMPTY.                                                *)
(***************************************************************************)
C16_NegativeLookupBound ==
    tstate = "live" =>
        \A k \in keys :
            (ValidArgs(tstate, k) /\ ~Lookup(T, k).found)
                => Lookup(T, k).probes <= max_probe + 1

C16_Witness ==
    /\ tstate = "live" /\ EmptyBuckets = 0 /\ max_probe >= 1 /\ n < cap
    /\ \E k \in keys :
          /\ ValidArgs(tstate, k) /\ ~Lookup(T, k).found
          /\ Lookup(T, k).probes = max_probe + 1

C18_SlotChoice ==
    [][/\ (ops' = ops + 1 /\ last'.op = "put" /\ last'.kind = "insert" /\ ~Need)
            => \E p \in 0..(cap - 1) :
                 /\ index[p].state # HT_BUCKET_OCCUPIED
                 /\ index' = [index EXCEPT
                                ![p] = [hashcode |-> KeyHash[last'.key],
                                        loc |-> last'.slot,
                                        state |-> HT_BUCKET_OCCUPIED]]
                 /\ index[p].state = HT_EMPTY_BUCKET
                       => (last'.slot = ins_loc /\ ins_loc' = ins_loc + 1)
                 /\ index[p].state = HT_DELETED_BUCKET
                       => (last'.slot = index[p].loc /\ ins_loc' = ins_loc)
       /\ (ops' = ops + 1 /\ last'.op = "put" /\ last'.kind = "insert" /\ Need)
            => (last'.slot = ins_loc /\ ins_loc' = ins_loc + 1)
       /\ (ops' = ops + 1 /\ last'.op = "remove" /\ last'.kind = "removed")
            => \E p \in 0..(cap - 1) :
                 /\ index[p].state = HT_BUCKET_OCCUPIED
                 /\ index[p].loc = last'.slot
                 /\ index' = [index EXCEPT
                                ![p] = [hashcode |-> ZeroHash, loc |-> index[p].loc,
                                        state |-> HT_DELETED_BUCKET]]
                 /\ ins_loc' = ins_loc]_vars

C18_Witness ==
    /\ tstate = "live" /\ last.op = "put" /\ last.kind = "insert" /\ ~last.need
    /\ last.slot >= 1 /\ last.slot + 1 < ins_loc
    /\ \E p \in 0..(cap - 1) :
          index[p].state = HT_BUCKET_OCCUPIED /\ index[p].loc = last.slot

\* the number of buckets of the index in state st
Buckets(st) == Cardinality({p \in 0..(cap - 1) : index[p].state = st})

\* the keys of keys that are one key to the table: the same key_len and
\* buffers that agree on their first key_len bytes
SameKey(k1, k2) ==
    /\ k1 # NullKey /\ k2 # NullKey
    /\ KeyLen(k1) = KeyLen(k2)
    /\ \A i \in 0..(KeyLen(k1) - 1) : At(KeyBuf(k1), i) = At(KeyBuf(k2), i)

(***************************************************************************)
(* C19. Resize frame: a put that resizes the table and succeeds leaves,    *)
(* but for its own insert or update, n and ins_loc as they were and every  *)
(* entry below the old cap as it was; every OCCUPIED bucket record of the  *)
(* old index is in the new index, which has no DELETED bucket and as many  *)
(* OCCUPIED buckets as n.                                                  *)
(***************************************************************************)
C19_ResizeFrame ==
    [][(ops' = ops + 1 /\ last'.op = "put" /\ Succeeded(last') /\ Need)
          => LET ins == IF last'.kind = "insert" THEN 1 ELSE 0
             IN  /\ cap' = 2 * cap
                 /\ n' = n + ins
                 /\ ins_loc' = ins_loc + ins
                 /\ \A s \in 0..(cap - 1) :
                       s # last'.slot => values'[s] = values[s]
                 /\ \A p \in 0..(cap - 1) :
                       index[p].state = HT_BUCKET_OCCUPIED
                          => \E q \in 0..(cap' - 1) : index'[q] = index[p]
                 /\ Buckets(HT_DELETED_BUCKET)' = 0
                 /\ Buckets(HT_BUCKET_OCCUPIED)' = n']_vars

C19_Witness ==
    /\ tstate = "live" /\ Succeeded(last) /\ last.need /\ hist.resizes >= 1
    /\ cap = 2 * HT_DEFAULT_CAPACITY
    /\ ins_loc > n /\ n >= 2
    /\ Buckets(HT_DELETED_BUCKET) = 0 /\ Buckets(HT_BUCKET_OCCUPIED) = n

(***************************************************************************)
(* C20. The default hasher is a function of the first key_len bytes: keys  *)
(* with the same key_len whose buffers agree on their first key_len bytes  *)
(* have the same hash code and the same home bucket, and the table answers *)
(* exists alike for them.                                                  *)
(***************************************************************************)
C20_HashOfPrefix ==
    \A k1 \in keys, k2 \in keys :
        SameKey(k1, k2) =>
            /\ KeyHash[k1] = KeyHash[k2]
            /\ tstate = "live" =>
                  /\ HT_CALC_LOC(cap, KeyHash[k1], 0) = HT_CALC_LOC(cap, KeyHash[k2], 0)
                  /\ ExistsOf(k1) = ExistsOf(k2)

\* _HT_hash(e->k, e->k_len): the hasher on the bytes and the length an
\* entry stores; it reads the offsets 0..k_len of k and, of a key of
\* HT_MAX_KEY_LEN - 1 non-zero bytes, one byte past k that ends the loop
\* whatever it holds
EntryHash(e) ==
    _HT_hash([i \in 1..(HT_MAX_KEY_LEN + 1) |-> Byte(e.k, i - 1)], e.k_len)

(***************************************************************************)
(* C21. Cached hash consistency: in every state of a live table, for every *)
(* OCCUPIED bucket, the hasher applied to the key bytes and the key length *)
(* stored in the entry at the bucket's loc gives the bucket's hashcode.    *)
(***************************************************************************)
C21_CachedHash ==
    tstate = "live" =>
        \A p \in 0..(cap - 1) :
            index[p].state = HT_BUCKET_OCCUPIED
                => EntryHash(values[index[p].loc]) = index[p].hashcode

\* e1->k_len == e2->k_len && cmp(e1->k, e2->k, e1->k_len) == 0: the test
\* of the table for equal keys, on two entries; strncmp stops at the first
\* zero byte
EntryKeyEq(e1, e2) ==
    /\ e1.k_len = e2.k_len
    /\ \A i \in 0..(e1.k_len - 1) :
          (\A j \in 0..(i - 1) : Byte(e1.k, j) # 0) => Byte(e1.k, i) = Byte(e2.k, i)

(***************************************************************************)
(* C22. Key uniqueness: in every state of a live table no two OCCUPIED     *)
(* buckets reference entries that hold equal keys, and n is the number of  *)
(* distinct keys put and not removed since.                                *)
(***************************************************************************)
C22_KeyUnique ==
    tstate = "live" =>
        /\ \A p \in 0..(cap - 1), q \in 0..(cap - 1) :
               (/\ p # q
                /\ index[p].state = HT_BUCKET_OCCUPIED
                /\ index[q].state = HT_BUCKET_OCCUPIED)
                   => ~EntryKeyEq(values[index[p].loc], values[index[q].loc])
        /\ n = Cardinality(Kept)

\* the buckets that reference an entries slot: OCCUPIED or DELETED
Referencing(p) == index[p].state \in {HT_BUCKET_OCCUPIED, HT_DELETED_BUCKET}

(***************************************************************************)
(* C23. Entries addressing is safe and injective: in every state of a live *)
(* table ins_loc <= cap, every OCCUPIED or DELETED bucket has              *)
(* loc < ins_loc, and no two OCCUPIED or DELETED buckets have the same     *)
(* loc; the slot a put has just written is below cap and referenced by the *)
(* bucket the put made OCCUPIED only.                                      *)
(***************************************************************************)
C23_EntriesAddressing ==
    tstate = "live" =>
        /\ ins_loc <= cap
        /\ \A p \in 0..(cap - 1) : Referencing(p) => index[p].loc < ins_loc
        /\ \A p \in 0..(cap - 1), q \in 0..(cap - 1) :
               (p # q /\ Referencing(p) /\ Referencing(q))
                   => index[p].loc # index[q].loc
        /\ last.kind # "wild"
        /\ (last.op = "put" /\ last.kind = "insert")
               => /\ last.slot < cap
                  /\ Cardinality({p \in 0..(cap - 1) :
                         Referencing(p) /\ index[p].loc = last.slot}) = 1

C23_Witness ==
    /\ tstate = "live" /\ last.op = "put" /\ last.kind = "insert"
    /\ ins_loc = cap /\ last.slot = cap - 1
    /\ Buckets(HT_DELETED_BUCKET) >= 1 /\ n >= 2

(***************************************************************************)
(* C24. Live-count accounting: in every state of a live table n is the     *)
(* number of OCCUPIED buckets and n <= cap; a put adds one to n exactly    *)
(* when it makes a bucket that was not OCCUPIED OCCUPIED (its insert       *)
(* branch) and otherwise leaves n alone, a remove takes one from n exactly *)
(* when it makes an OCCUPIED bucket DELETED and otherwise leaves n alone,  *)
(* and the resize of a put drops no OCCUPIED bucket.                       *)
(***************************************************************************)
C24_LiveCount ==
    /\ [](tstate = "live" => n = Buckets(HT_BUCKET_OCCUPIED) /\ n <= cap)
    /\ [][(ops' = ops + 1 /\ tstate = "live" /\ tstate' = "live")
             => LET occ  == Buckets(HT_BUCKET_OCCUPIED)
                    del  == Buckets(HT_DELETED_BUCKET)
                    occ2 == Buckets(HT_BUCKET_OCCUPIED)'
                    del2 == Buckets(HT_DELETED_BUCKET)'
                IN  /\ last'.op = "put" =>
                          /\ n' \in {n, n + 1}
                          /\ (n' = n + 1) <=> (last'.kind = "insert")
                          /\ (n' = n + 1) <=> (occ2 = occ + 1)
                          /\ Need => _HT_expand(T, "ok").dropped = 0
                          /\ (Need /\ last'.kind \in {"insert", "update"})
                                => del2 = 0 /\ occ2 >= occ
                    /\ last'.op = "remove" =>
                          /\ n' \in {n, n - 1}
                          /\ (n' = n - 1) <=> (last'.kind = "removed")
                          /\ (n' = n - 1) <=> (occ2 = occ - 1 /\ del2 = del + 1)
                          /\ (n' = n) => (occ2 = occ /\ del2 = del)]_vars

C24_Witness ==
    /\ tstate = "live" /\ last.op = "remove" /\ last.kind = "removed"
    /\ hist.resizes >= 1 /\ n >= 2 /\ n < cap
    /\ Buckets(HT_DELETED_BUCKET) = 1 /\ Buckets(HT_BUCKET_OCCUPIED) = n

(***************************************************************************)
(* C25. Read-only lookups: get, exists and a remove that does not find its *)
(* key leave the whole table (n, cap, expand, ins_loc, max_probe, every    *)
(* bucket and every entry) as it was, and in every state a get(k) that is  *)
(* not NULL comes with an exists(k) that is 1.                             *)
(***************************************************************************)
C25_ReadOnlyLookups ==
    /\ [](\A k \in keys : GetOf(k) # NULL => ExistsOf(k) = 1)
    /\ [][/\ (ops' = ops + 1 /\ last'.op = "remove" /\ last'.kind # "removed")
               => UNCHANGED <<tstate, tbl>>
          /\ (GetCall \/ ExistsCall) => UNCHANGED <<tstate, tbl>>]_vars

C25_Witness ==
    /\ tstate = "live" /\ last.op = "remove" /\ last.kind = "absent"
    /\ Buckets(HT_DELETED_BUCKET) >= 1
    /\ \E k \in keys : GetOf(k) # NULL /\ ExistsOf(k) = 1 /\ Lookup(T, k).d >= 1

=============================================================================
